---- MODULE Spec2Model ----
(***************************************************************************)
(* Model of the task service of todo-app-nest: TasksService                *)
(* (src/src/tasks/tasks.service.ts) over the Task entity                   *)
(* (src/src/tasks/entities/task.entity.ts) and the repository it is given. *)
(*                                                                         *)
(* JavaScript values are tagged records: [t |-> "undefined"],              *)
(* [t |-> "null"], [t |-> "string", v |-> ...], [t |-> "boolean", v |-> b].*)
(* Identifiers, task names and search strings are sequences of one-        *)
(* character strings, so that trim(), the UUID regular expression and the  *)
(* LIKE pattern are computed character by character.                       *)
(***************************************************************************)
EXTENDS Integers, Sequences, FiniteSets, TLC

VARIABLES
    store,      \* the rows of table "tasks": a set of Task records, keyed by id
    now,        \* the store's clock (source of dateOfCreation / updatedAt)
    nextId,     \* how many identifiers the store has generated so far
    removed,    \* history: identifiers on which remove() has succeeded
    last        \* the operation just completed, until its outcome is returned to
                \* the caller: request, outcome, repository calls

vars == <<store, now, nextId, removed, last>>

(***************************************************************************)
(* Bounds of the model.                                                    *)
(***************************************************************************)
MaxClock == 4       \* writes (INSERT / UPDATE) in one run
MaxRows == 3        \* rows of the table the list query is applied to

(***************************************************************************)
(* JavaScript values.                                                      *)
(***************************************************************************)
Undefined == [t |-> "undefined"]
Null == [t |-> "null"]
Str(s) == [t |-> "string", v |-> s]
Bool(b) == [t |-> "boolean", v |-> b]

\* x?.f(): null and undefined have no value to call a method on
IsNullish(x) == x.t \in {"undefined", "null"}

(***************************************************************************)
(* Characters and strings.                                                 *)
(***************************************************************************)
Digits == {"0", "1", "2", "3", "4", "5", "6", "7", "8", "9"}
WhiteSpace == {" ", "\t", "\n"}

\* the letters that occur in the strings of the model
ToLowerChar(c) ==
    CASE c = "A" -> "a" [] c = "B" -> "b" [] c = "C" -> "c" [] c = "D" -> "d"
      [] c = "E" -> "e" [] c = "F" -> "f" [] c = "G" -> "g" [] c = "X" -> "x"
      [] OTHER -> c

ToLower(s) == [i \in DOMAIN s |-> ToLowerChar(s[i])]

\* [0-9a-f] under the /i flag
IsHexChar(c) == ToLowerChar(c) \in (Digits \cup {"a", "b", "c", "d", "e", "f"})

RECURSIVE TrimStart(_)
TrimStart(s) ==
    IF s # <<>> /\ Head(s) \in WhiteSpace THEN TrimStart(Tail(s)) ELSE s

RECURSIVE TrimEnd(_)
TrimEnd(s) ==
    IF s # <<>> /\ s[Len(s)] \in WhiteSpace
    THEN TrimEnd(SubSeq(s, 1, Len(s) - 1))
    ELSE s

\* String.prototype.trim
Trim(s) == TrimEnd(TrimStart(s))

(***************************************************************************)
(* Identifiers.  The store generates version-4 style UUIDs in lowercase;   *)
(* the n-th identifier generated in a run is Uuid(n).                      *)
(***************************************************************************)
UuidPrefix ==
    <<"1", "2", "3", "e", "4", "5", "6", "7", "-", "e", "8", "9", "b", "-", "1", "2", "d", "3", "-", "a", "4", "5", "6", "-", "4", "2", "6", "6", "1", "4", "1", "7", "4", "0", "0">>

DigitChar(n) == <<"0", "1", "2", "3", "4", "5", "6", "7", "8", "9">>[n + 1]

Uuid(n) == Append(UuidPrefix, DigitChar(n))

ToUpperChar(c) ==
    CASE c = "a" -> "A" [] c = "b" -> "B" [] c = "c" -> "C" [] c = "d" -> "D"
      [] c = "e" -> "E" [] c = "f" -> "F" [] c = "g" -> "G" [] c = "x" -> "X"
      [] OTHER -> c

ToUpper(s) == [i \in DOMAIN s |-> ToUpperChar(s[i])]

\* the identifiers requests are made with
IdArgs ==
    {Null, Undefined, Str(<<>>), Str(<<" ", " ">>), Str(<<"\t">>),
     Str(<<"1", "2", "3">>),
     Str(<<"i", "n", "v", "a", "l", "i", "d", "-", "i", "d">>),
     Str(Uuid(1) \o <<" ">>),
     Str([Uuid(1) EXCEPT ![1] = "g"]),
     Str([Uuid(1) EXCEPT ![9] = "0"]),
     Str(ToUpper(Uuid(1)))}
    \cup {Str(Uuid(1)), Str(Uuid(2)), Str(Uuid(9))}

(***************************************************************************)
(* Identifier verification: the first two checks of TasksService.findOne.  *)
(***************************************************************************)
\* !id?.trim()  (the empty string is falsy)
IdIsBlankNoTrim(id) == IsNullish(id) \/ id.v = <<>>

IdIsBlank(id) == IsNullish(id) \/ Trim(id.v) = <<>>

UuidDashes == {9, 14, 19, 24}
UuidLength == 36

\* faulty variant: the pattern without its end anchor
UuidRegexPrefixTest(s) ==
    /\ Len(s) >= UuidLength
    /\ \A i \in 1..UuidLength :
          IF i \in UuidDashes THEN s[i] = "-" ELSE IsHexChar(s[i])

\* /^[0-9a-f]{8}-[0-9a-f]{4}-[0-9a-f]{4}-[0-9a-f]{4}-[0-9a-f]{12}$/i .test(s)
UuidRegexTest(s) ==
    /\ Len(s) = UuidLength
    /\ \A i \in 1..UuidLength :
          IF i \in UuidDashes THEN s[i] = "-" ELSE IsHexChar(s[i])

(***************************************************************************)
(* The Task entity and its columns.                                        *)
(***************************************************************************)
TaskStatus == {"Pending", "Done", "In Progress", "Paused"}
TaskPriority == {"Red", "Yellow", "Blue"}

DefaultStatus == "Pending"
DefaultPriority == "Blue"
DefaultIsActive == TRUE

\* the columns a request can set
DtoFields == {"name", "dueDate", "status", "priority", "isActive"}
\* all columns of table "tasks"
Columns == DtoFields \cup {"id", "dateOfCreation", "updatedAt"}

(***************************************************************************)
(* Dates.  new Date(s).getTime() of a date string is a day number, or NaN. *)
(* The server clock is taken to be UTC: a Date and its DATE column agree.   *)
(***************************************************************************)
NaN == -1

DateParse(s) ==
    CASE s = "2025-08-15" -> 20250815
      [] s = "2025-08-25" -> 20250825
      [] s = "2025-08-25T10:00:00Z" -> 20250825
      [] OTHER -> NaN

IsNaN(d) == d = NaN

\* a JavaScript value in a boolean context
Truthy(x) ==
    CASE x.t \in {"undefined", "null"} -> FALSE
      [] x.t = "boolean" -> x.v
      [] x.t = "string" -> x.v # ""
      [] OTHER -> TRUE

(***************************************************************************)
(* The repository (TypeORM Repository<Task> on PostgreSQL).                *)
(* A row holds column values; an entity in memory holds JavaScript values. *)
(***************************************************************************)
\* a row read from the table, as an entity object
Hydrate(row) ==
    [id |-> Str(row.id),
     name |-> Str(row.name),
     dueDate |-> [t |-> "date", v |-> row.dueDate],
     status |-> Str(row.status),
     priority |-> Str(row.priority),
     isActive |-> Bool(row.isActive),
     dateOfCreation |-> [t |-> "date", v |-> row.dateOfCreation],
     updatedAt |-> [t |-> "date", v |-> row.updatedAt]]

\* strict equality of two JavaScript values of one column
SameValue(a, b) ==
    /\ a.t = b.t
    /\ a.t \in {"undefined", "null"} \/ a.v = b.v

\* faulty variant: findOne() without its where clause returns the first row
RepoFindOneAny(st, id) == IF st = {} THEN {} ELSE {CHOOSE r \in st : TRUE}

\* findOne({ where: { id } }): the uuid column compares case-insensitively
RepoFindOne(st, id) == LET key == ToLower(id) IN {r \in st : r.id = key}

\* the columns of an entity that differ from the row the table holds
ChangedColumns(entity, row) ==
    {c \in DtoFields : ~SameValue(entity[c], Hydrate(row)[c])}

\* all columns are NOT NULL (Column() without nullable: true)
ViolatesNotNull(entity, cols) == \E c \in cols : entity[c].t = "null"

\* the value an UPDATE leaves in column c
NewValue(row, entity, cols, c) == IF c \in cols THEN entity[c].v ELSE row[c]

\* faulty variant: the UPDATE stamps both timestamp columns
UpdateRowRestamp(row, entity, cols, clk) ==
    [id |-> row.id,
     name |-> NewValue(row, entity, cols, "name"),
     dueDate |-> NewValue(row, entity, cols, "dueDate"),
     status |-> NewValue(row, entity, cols, "status"),
     priority |-> NewValue(row, entity, cols, "priority"),
     isActive |-> NewValue(row, entity, cols, "isActive"),
     dateOfCreation |-> clk,
     updatedAt |-> clk]

\* UPDATE tasks SET <cols>, "updatedAt" = CURRENT_TIMESTAMP WHERE id = ...
UpdateRow(row, entity, cols, clk) ==
    [id |-> row.id,
     name |-> NewValue(row, entity, cols, "name"),
     dueDate |-> NewValue(row, entity, cols, "dueDate"),
     status |-> NewValue(row, entity, cols, "status"),
     priority |-> NewValue(row, entity, cols, "priority"),
     isActive |-> NewValue(row, entity, cols, "isActive"),
     dateOfCreation |-> row.dateOfCreation,
     updatedAt |-> clk]

\* faulty variant: the column DEFAULT is inserted whatever the entity holds
InsertValueDefault(entity, c, dflt) == dflt

\* the value INSERTed for a column: DEFAULT for an undefined property
InsertValue(entity, c, dflt) ==
    IF c \notin DOMAIN entity \/ entity[c].t = "undefined" THEN dflt ELSE entity[c].v

\* INSERT INTO tasks ... : id and both timestamps come from the store
InsertRow(entity, id, clk) ==
    [id |-> id,
     name |-> entity.name.v,
     dueDate |-> entity.dueDate.v,
     status |-> InsertValue(entity, "status", DefaultStatus),
     priority |-> InsertValue(entity, "priority", DefaultPriority),
     isActive |-> InsertValue(entity, "isActive", DefaultIsActive),
     dateOfCreation |-> clk,
     updatedAt |-> clk]

\* the row an entity that carries its own id and timestamps is INSERTed as
ReinsertRow(entity, clk) ==
    [id |-> entity.id.v,
     name |-> entity.name.v,
     dueDate |-> entity.dueDate.v,
     status |-> entity.status.v,
     priority |-> entity.priority.v,
     isActive |-> entity.isActive.v,
     dateOfCreation |-> entity.dateOfCreation.v,
     updatedAt |-> clk]

(***************************************************************************)
(* save(entity) of an entity that has an id: the row is read again by id;  *)
(* if it is there, the changed columns are computed and an UPDATE is       *)
(* issued only if there are any; if it is gone, the entity is INSERTed.    *)
(* Result: [ok, store, now].                                               *)
(***************************************************************************)
RepoSaveExisting(st, clk, entity) ==
    LET rows == RepoFindOne(st, entity.id.v)
        row == CHOOSE r \in rows : TRUE
        cols == IF rows = {} THEN DtoFields ELSE ChangedColumns(entity, row)
    IN  IF rows # {} /\ cols = {} THEN [ok |-> TRUE, store |-> st, now |-> clk]
        ELSE IF ViolatesNotNull(entity, cols)
             THEN [ok |-> FALSE, store |-> st, now |-> clk]
        ELSE IF rows = {}
             THEN [ok |-> TRUE,
                   store |-> st \cup {ReinsertRow(entity, clk + 1)},
                   now |-> clk + 1]
        ELSE [ok |-> TRUE,
              store |-> (st \ {row}) \cup {UpdateRow(row, entity, cols, clk + 1)},
              now |-> clk + 1]

\* name has no DEFAULT: an undefined name is inserted as NULL
MissingRequired(entity) == entity.name.t = "undefined"

\* save(entity) of a new entity: INSERT with a generated id
\* Result: [ok, store, now, nextId].
RepoSaveNew(st, clk, n, entity) ==
    IF ViolatesNotNull(entity, DOMAIN entity) \/ MissingRequired(entity)
    THEN [ok |-> FALSE, store |-> st, now |-> clk, nextId |-> n]
    ELSE [ok |-> TRUE,
          store |-> st \cup {InsertRow(entity, Uuid(n + 1), clk + 1)},
          now |-> clk + 1,
          nextId |-> n + 1]

\* faulty variant: the row is kept (a soft delete that nothing filters)
RepoRemoveKeep(st, entity) == st

\* remove(entity): DELETE FROM tasks WHERE id = ...
RepoRemove(st, entity) == {r \in st : r.id # entity.id.v}

(***************************************************************************)
(* TasksService.  Each operation yields                                    *)
(*   [status, message, store, now, nextId, calls, task]                    *)
(* status: "ok" or the class of the exception thrown; calls: the           *)
(* repository methods called, in order; task: the entity returned.         *)
(***************************************************************************)
NoTask == Undefined

Thrown(class, msg, st, clk, n, calls) ==
    [status |-> class, message |-> msg, store |-> st, now |-> clk,
     nextId |-> n, calls |-> calls, task |-> NoTask]

Returned(st, clk, n, calls, task) ==
    [status |-> "ok", message |-> "", store |-> st, now |-> clk,
     nextId |-> n, calls |-> calls, task |-> task]

\* new Date(x).getTime()
NewDate(x) ==
    CASE x.t = "string" -> DateParse(x.v)
      [] x.t = "null" -> 19700101
      [] OTHER -> NaN

\* faulty variant: the entity is created before the date is looked at
ServiceCreateNoDateCheck(st, clk, n, dto) ==
    LET entity == [dto EXCEPT !.dueDate = [t |-> "date", v |-> NewDate(dto.dueDate)]]
        saved == RepoSaveNew(st, clk, n, entity)
    IN  Returned(saved.store, saved.now, saved.nextId, <<"create", "save">>,
                 Undefined)

\* TasksService.create
ServiceCreate(st, clk, n, dto) ==
    LET dueDate == NewDate(dto.dueDate)
        entity == [dto EXCEPT !.dueDate = [t |-> "date", v |-> dueDate]]
        saved == RepoSaveNew(st, clk, n, entity)
        row == CHOOSE r \in saved.store : r.id = Uuid(saved.nextId)
    IN  IF IsNaN(dueDate)
        THEN Thrown("BadRequestException", "Invalid due date format",
                    st, clk, n, <<>>)
        ELSE IF ~saved.ok
        THEN Thrown("QueryFailedError", "", st, clk, n, <<"create", "save">>)
        ELSE Returned(saved.store, saved.now, saved.nextId,
                      <<"create", "save">>, Hydrate(row))

\* TasksService.findOne
ServiceFindOne(st, clk, n, id) ==
    IF IdIsBlank(id)
    THEN Thrown("BadRequestException", "Task ID is required", st, clk, n, <<>>)
    ELSE IF ~UuidRegexTest(id.v)
    THEN Thrown("BadRequestException", "Invalid task ID format", st, clk, n, <<>>)
    ELSE LET rows == RepoFindOne(st, id.v)
         IN  IF rows = {}
             THEN Thrown("NotFoundException", "Task with ID not found", st, clk, n,
                         <<"findOne">>)
             ELSE Returned(st, clk, n, <<"findOne">>,
                           Hydrate(CHOOSE r \in rows : TRUE))

\* the properties update() copies when they are not undefined
CopiedFields == {"name", "status", "priority", "isActive"}

\* updateData, as far as it is built without throwing
UpdateData(dto) ==
    LET copied == {f \in CopiedFields : dto[f].t # "undefined"}
        dated == IF Truthy(dto.dueDate) THEN {"dueDate"} ELSE {}
    IN  [f \in copied \cup dated |->
            IF f = "dueDate"
            THEN [t |-> "date", v |-> NewDate(dto.dueDate)]
            ELSE dto[f]]

\* Object.assign(target, source)
ObjectAssign(target, source) ==
    [f \in DOMAIN target |-> IF f \in DOMAIN source THEN source[f] ELSE target[f]]

\* faulty variant: the copied properties are saved before the date is parsed
ServiceUpdateSaveFirst(st, clk, n, id, dto) ==
    LET found == ServiceFindOne(st, clk, n, id)
        data == UpdateData(dto)
        early == [f \in DOMAIN data \ {"dueDate"} |-> data[f]]
        saved == RepoSaveExisting(st, clk, ObjectAssign(found.task, early))
    IN  IF found.status # "ok" THEN found
        ELSE IF Truthy(dto.dueDate) /\ IsNaN(NewDate(dto.dueDate))
        THEN Thrown("BadRequestException", "Invalid due date format",
                    saved.store, saved.now, n, <<"findOne", "save">>)
        ELSE Returned(saved.store, saved.now, n, <<"findOne", "save">>, found.task)

\* TasksService.update
ServiceUpdate(st, clk, n, id, dto) ==
    LET found == ServiceFindOne(st, clk, n, id)
        data == UpdateData(dto)
        task == ObjectAssign(found.task, data)
        saved == RepoSaveExisting(st, clk, task)
        rows == RepoFindOne(saved.store, task.id.v)
    IN  IF found.status # "ok" THEN found
        ELSE IF Truthy(dto.dueDate) /\ IsNaN(NewDate(dto.dueDate))
        THEN Thrown("BadRequestException", "Invalid due date format",
                    st, clk, n, <<"findOne">>)
        ELSE IF ~saved.ok
        THEN Thrown("BadRequestException", "Failed to update task",
                    st, clk, n, <<"findOne", "save">>)
        ELSE Returned(saved.store, saved.now, n, <<"findOne", "save">>,
                      Hydrate(CHOOSE r \in rows : TRUE))

\* TasksService.remove
ServiceRemove(st, clk, n, id) ==
    LET found == ServiceFindOne(st, clk, n, id)
    IN  IF found.status # "ok" THEN found
        ELSE Returned(RepoRemove(st, found.task), clk, n,
                      <<"findOne", "remove">>, NoTask)

(***************************************************************************)
(* The list query: TasksService.findAll over Repository.findAndCount.      *)
(***************************************************************************)
Num(n) == [t |-> "number", v |-> n]

\* const { x = d } = obj: the default replaces undefined only
OrDefault(x, d) == IF x.t = "undefined" THEN d ELSE x

DefaultPage == 1
DefaultLimit == 10
DefaultSortBy == "dateOfCreation"
DefaultSortOrder == "DESC"

ValidSortFields == {"name", "dueDate", "status", "priority", "dateOfCreation"}

\* faulty variant: the fallback is the first entry of the list
SortFieldFallsBackToName(sortBy) ==
    IF sortBy \in ValidSortFields THEN sortBy ELSE "name"

\* validSortFields.includes(sortBy) ? sortBy : 'dateOfCreation'
SortField(sortBy) == IF sortBy \in ValidSortFields THEN sortBy ELSE "dateOfCreation"

\* name LIKE pattern (PostgreSQL): % is any run of characters, _ any one
\* character, every other character stands for itself, case included
RECURSIVE LikeMatch(_, _)
LikeMatch(pat, str) ==
    IF pat = <<>> THEN str = <<>>
    ELSE IF Head(pat) = "%"
         THEN LikeMatch(Tail(pat), str)
              \/ (str # <<>> /\ LikeMatch(pat, Tail(str)))
    ELSE IF str = <<>> THEN FALSE
    ELSE IF Head(pat) = "_" THEN LikeMatch(Tail(pat), Tail(str))
    ELSE Head(pat) = Head(str) /\ LikeMatch(Tail(pat), Tail(str))

\* Like(`%${search}%`)
LikePattern(search) == <<"%">> \o search \o <<"%">>

\* the where object: one entry per supplied filter
WhereOf(q) ==
    LET keys == {k \in {"status", "priority", "isActive"} : q[k].t # "undefined"}
               \cup (IF q.search.t = "string" /\ q.search.v # <<>>
                     THEN {"name"} ELSE {})
    IN  [k \in keys |-> IF k = "name" THEN LikePattern(q.search.v) ELSE q[k].v]

\* faulty variant: a row is selected when any entry of where holds
RowMatchesAny(where, row) ==
    \/ DOMAIN where = {}
    \/ \E k \in DOMAIN where :
          IF k = "name" THEN LikeMatch(where[k], row.name) ELSE row[k] = where[k]

\* WHERE: the entries of the where object are joined by AND
RowMatches(where, row) ==
    \A k \in DOMAIN where :
        IF k = "name" THEN LikeMatch(where[k], row.name) ELSE row[k] = where[k]

\* the order of the labels of the enum column types
StatusRank(x) ==
    CASE x = "Pending" -> 1 [] x = "Done" -> 2 [] x = "In Progress" -> 3
      [] x = "Paused" -> 4

PriorityRank(x) == CASE x = "Red" -> 1 [] x = "Yellow" -> 2 [] x = "Blue" -> 3

\* the characters of the names of the model, in code order
CharOrder == <<" ", "%", "A", "B", "X", "_", "a", "b", "x">>

CharRank(c) == CHOOSE i \in DOMAIN CharOrder : CharOrder[i] = c

RECURSIVE TextLess(_, _)
TextLess(a, b) ==
    IF b = <<>> THEN FALSE
    ELSE IF a = <<>> THEN TRUE
    ELSE IF Head(a) # Head(b) THEN CharRank(Head(a)) < CharRank(Head(b))
    ELSE TextLess(Tail(a), Tail(b))

\* ORDER BY field ASC puts row a strictly before row b
KeyLess(field, a, b) ==
    CASE field = "name" -> TextLess(a.name, b.name)
      [] field = "status" -> StatusRank(a.status) < StatusRank(b.status)
      [] field = "priority" -> PriorityRank(a.priority) < PriorityRank(b.priority)
      [] OTHER -> a[field] < b[field]

\* faulty variant: the direction is not passed on to the order clause
MustPrecedeAscending(field, dir, a, b) == KeyLess(field, a, b)

\* row a must come before row b under ORDER BY field dir
MustPrecede(field, dir, a, b) ==
    IF dir = "ASC" THEN KeyLess(field, a, b) ELSE KeyLess(field, b, a)

RECURSIVE Orderings(_)
Orderings(rows) ==
    IF rows = {} THEN {<<>>}
    ELSE UNION {{<<r>> \o o : o \in Orderings(rows \ {r})} : r \in rows}

\* the orders in which ORDER BY may deliver the rows: rows that tie on the
\* field come in any order
SortedOrders(rows, field, dir) ==
    {o \in Orderings(rows) :
        \A i, j \in DOMAIN o : i < j => ~MustPrecede(field, dir, o[j], o[i])}

\* faulty variant: the offset is taken one page too far
SkipOfNextPage(page, limit) == page * limit

\* skip: (page - 1) * limit
SkipOf(page, limit) == (page - 1) * limit

\* faulty variant: the page runs one row into the next page
SliceOverlapping(o, skip, take) ==
    SubSeq(o, skip + 1, IF skip + take + 1 < Len(o) THEN skip + take + 1 ELSE Len(o))

\* OFFSET skip LIMIT take
Slice(o, skip, take) ==
    SubSeq(o, skip + 1, IF skip + take < Len(o) THEN skip + take ELSE Len(o))

\* faulty variant: Math.floor in place of Math.ceil
FloorDiv(total, limit) == total \div limit

\* Math.ceil(total / limit)
CeilDiv(total, limit) == (total + limit - 1) \div limit

\* TasksService.findAll, given the order ord in which the store delivers
\* the selected rows
ServiceFindAll(st, q, ord) ==
    LET page == OrDefault(q.page, Num(DefaultPage)).v
        limit == OrDefault(q.limit, Num(DefaultLimit)).v
        total == Cardinality({r \in st : RowMatches(WhereOf(q), r)})
        totalPages == CeilDiv(total, limit)
    IN  [status |-> "ok", message |-> "", calls |-> <<"findAndCount">>,
         data |-> Slice(ord, SkipOf(page, limit), limit),
         meta |-> [page |-> page, limit |-> limit, total |-> total,
                   totalPages |-> totalPages,
                   hasNext |-> page < totalPages,
                   hasPrev |-> page > 1]]

\* the orders in which findAndCount may deliver the rows selected by q
DeliveryOrders(st, q) ==
    SortedOrders({r \in st : RowMatches(WhereOf(q), r)},
                 SortField(OrDefault(q.sortBy, Str(DefaultSortBy)).v),
                 OrDefault(q.sortOrder, Str(DefaultSortOrder)).v)

(***************************************************************************)
(* Statistics: TasksService.getStats over six Repository.count queries.    *)
(***************************************************************************)
\* count() with no where clause
NoWhere == [k \in {} |-> ""]

\* faulty variant: the count of paused tasks asks for the done ones
StatsQueriesPausedAsDone ==
    <<NoWhere, [status |-> "Pending"], [status |-> "In Progress"],
      [status |-> "Done"], [status |-> "Done"], [isActive |-> TRUE]>>

\* the where clauses of the six counts, in the order of the Promise.all array
StatsQueries ==
    <<NoWhere, [status |-> "Pending"], [status |-> "In Progress"],
      [status |-> "Done"], [status |-> "Paused"], [isActive |-> TRUE]>>

\* faulty variant: the where clause is dropped
RepoCountAll(st, where) == Cardinality(st)

\* count({ where }): SELECT COUNT(*) FROM tasks WHERE ...
RepoCount(st, where) == Cardinality({r \in st : RowMatches(where, r)})

\* a settled promise
Fulfilled(v) == [state |-> "fulfilled", value |-> v]
Rejected == [state |-> "rejected", value |-> Undefined]

\* faulty variant: every promise is waited for and a rejected one yields
\* undefined
PromiseAllSettled(ps) ==
    Fulfilled([i \in DOMAIN ps |-> ps[i].value])

\* Promise.all(ps): rejected as soon as one of ps is
PromiseAll(ps) ==
    IF \E i \in DOMAIN ps : ps[i].state = "rejected"
    THEN Rejected
    ELSE Fulfilled([i \in DOMAIN ps |-> ps[i].value])

\* no statistics object is returned
NoStats == [k \in {} |-> Undefined]

\* TasksService.getStats; failing: the count queries that the store fails
ServiceGetStats(st, failing) ==
    LET counts == [i \in DOMAIN StatsQueries |->
                      IF i \in failing THEN Rejected
                      ELSE Fulfilled(Num(RepoCount(st, StatsQueries[i])))]
        all == PromiseAll(counts)
        calls == [i \in DOMAIN StatsQueries |-> "count"]
    IN  IF all.state = "rejected"
        THEN [status |-> "BadRequestException",
              message |-> "Failed to fetch task statistics",
              calls |-> calls, stats |-> NoStats]
        ELSE [status |-> "ok", message |-> "", calls |-> calls,
              stats |-> [total |-> all.value[1], pending |-> all.value[2],
                         inProgress |-> all.value[3], done |-> all.value[4],
                         paused |-> all.value[5], active |-> all.value[6]]]

(***************************************************************************)
(* Failure of the store.  A repository call that reaches the database may  *)
(* throw (connection lost, statement timeout): the call then has no        *)
(* effect, and the operation makes of the error what its code says.        *)
(***************************************************************************)
\* the class of the error a failing repository call throws
StoreError == "QueryFailedError"

\* faulty variant: a failing lookup is answered as if no row was found
OnStoreFailureAsNotFound(op, call) ==
    CASE op = "update" /\ call = "save" ->
            [class |-> "BadRequestException", message |-> "Failed to update task"]
      [] op = "remove" /\ call = "remove" ->
            [class |-> "BadRequestException", message |-> "Failed to delete task"]
      [] call = "findOne" ->
            [class |-> "NotFoundException", message |-> "Task with ID not found"]
      [] OTHER -> [class |-> StoreError, message |-> ""]

\* what operation op throws when its repository call throws: update and
\* remove catch around save / remove only, everything else propagates
OnStoreFailure(op, call) ==
    CASE op = "update" /\ call = "save" ->
            [class |-> "BadRequestException", message |-> "Failed to update task"]
      [] op = "remove" /\ call = "remove" ->
            [class |-> "BadRequestException", message |-> "Failed to delete task"]
      [] OTHER -> [class |-> StoreError, message |-> ""]

\* the position of the call named fault among the calls, 0 if it is not made
CallIndex(calls, fault) ==
    IF \E i \in DOMAIN calls : calls[i] = fault
    THEN CHOOSE i \in DOMAIN calls : calls[i] = fault
    ELSE 0

\* the outcome of operation op when the store fails the call named fault;
\* r is the outcome with a store that works
WithStoreFailure(op, r, fault, st, clk, n) ==
    LET k == CallIndex(r.calls, fault)
        e == OnStoreFailure(op, fault)
    IN  IF k = 0 THEN r
        ELSE Thrown(e.class, e.message, st, clk, n, SubSeq(r.calls, 1, k))

(***************************************************************************)
(* Requests.  A payload names every property; an absent one is undefined.  *)
(***************************************************************************)
Dto(name, dueDate, status, priority, isActive) ==
    [name |-> name, dueDate |-> dueDate, status |-> status,
     priority |-> priority, isActive |-> isActive]

EmptyDto == Dto(Undefined, Undefined, Undefined, Undefined, Undefined)

NameA == <<"a">>
NameB == <<"B">>

CreateDtos ==
    {Dto(Str(NameA), Str("2025-08-15"), Undefined, Undefined, Undefined),
     Dto(Str(NameB), Str("2025-08-25T10:00:00Z"), Str("Done"), Str("Red"),
         Bool(FALSE)),
     Dto(Str(NameA), Str("invalid-date"), Str("Paused"), Undefined, Undefined),
     Dto(Str(NameA), Str("2025-08-15"), Null, Undefined, Undefined)}

UpdateDtos ==
    {EmptyDto,
     Dto(Undefined, Undefined, Str("Done"), Undefined, Undefined),
     Dto(Str(NameB), Undefined, Undefined, Undefined, Undefined),
     Dto(Undefined, Str("2025-08-25"), Undefined, Undefined, Undefined),
     Dto(Str(NameB), Str("invalid-date"), Str("Paused"), Undefined, Undefined),
     Dto(Undefined, Undefined, Undefined, Str("Red"), Bool(FALSE)),
     Dto(Undefined, Null, Undefined, Undefined, Bool(TRUE)),
     Dto(Undefined, Undefined, Null, Undefined, Undefined)}

\* payloads that create a task of each status, and an inactive one
StatusDtos ==
    {Dto(Str(NameA), Str("2025-08-15"), Str(x), Undefined, Undefined) :
        x \in TaskStatus}
    \cup {Dto(Str(NameB), Str("2025-08-25"), Undefined, Undefined, Bool(FALSE))}

\* the query of a list request; an absent parameter is undefined
Queries ==
    [page : {Undefined, Num(1), Num(2), Num(3)},
     limit : {Undefined, Num(1), Num(2)},
     status : {Undefined, Str("Pending"), Str("Done")},
     priority : {Undefined, Str("Red")},
     isActive : {Undefined, Bool(TRUE), Bool(FALSE)},
     search : {Undefined, Str(<<>>), Str(<<"a", "b">>), Str(<<"a", "%", "b">>),
               Str(<<"a", "_", "b">>)},
     sortBy : {Undefined, Str("name"), Str("dueDate"), Str("status"),
               Str("priority"), Str("dateOfCreation"), Str("createdAt")},
     sortOrder : {Undefined, Str("ASC"), Str("DESC")}]

\* rows the list query is applied to
Row(n, name, dueDate, status, priority, isActive, created, updated) ==
    [id |-> Uuid(n), name |-> name, dueDate |-> dueDate, status |-> status,
     priority |-> priority, isActive |-> isActive,
     dateOfCreation |-> created, updatedAt |-> updated]

QueryRows ==
    {Row(1, <<"a", "b">>, 20250815, "Pending", "Blue", TRUE, 1, 1),
     Row(2, <<"A", "B">>, 20250825, "Done", "Red", FALSE, 2, 5),
     Row(3, <<"a", "x", "b">>, 20250815, "Pending", "Red", TRUE, 3, 3),
     Row(4, <<"a", "%", "b">>, 20250825, "Pending", "Blue", FALSE, 4, 4)}

(***************************************************************************)
(* The validation pipe (main.ts): a request body or query string is turned *)
(* into an instance of the DTO class by class-transformer, then validated  *)
(* by class-validator; the handler is called only with a valid instance.   *)
(***************************************************************************)
\* transformOptions: { enableImplicitConversion: true }
EnableImplicitConversion == TRUE

\* String(x) of a primitive
StringOf(x) ==
    CASE x.t = "string" -> x
      [] x.t = "boolean" -> Str(IF x.v THEN "true" ELSE "false")

\* Number(x) of a query-string value
NumberOf(x) ==
    CASE x.t = "number" -> x.v
      [] x.t = "string" ->
            (CASE x.v = "0" -> 0 [] x.v = "1" -> 1 [] x.v = "2" -> 2
               [] x.v = "3" -> 3 [] OTHER -> NaN)
      [] OTHER -> NaN

\* the conversion of a property value to the declared type of the property:
\* null and undefined are kept, anything else goes through String(),
\* Number() or Boolean()
ImplicitConversion(type, x) ==
    IF ~EnableImplicitConversion \/ IsNullish(x) THEN x
    ELSE CASE type = "boolean" -> Bool(Truthy(x))
           [] type = "number" -> Num(NumberOf(x))
           [] OTHER -> StringOf(x)

\* @Type(() => Number): the conversion does not depend on the option
TypeNumber(x) == IF IsNullish(x) THEN x ELSE Num(NumberOf(x))

\* faulty variant: the value is passed on as it came
TransformKeep(x) == x

\* @Transform(({ value }) => value?.trim())
TransformTrim(x) ==
    IF IsNullish(x) THEN Undefined
    ELSE IF x.t = "string" THEN Str(Trim(x.v)) ELSE x

\* @Transform of QueryTaskDto.isActive
TransformIsActive(x) ==
    IF x = Str("true") THEN Bool(TRUE)
    ELSE IF x = Str("false") THEN Bool(FALSE)
    ELSE x

\* the declared types of the properties of CreateTaskDto / UpdateTaskDto
BodyType(f) == IF f = "isActive" THEN "boolean" ELSE "string"

\* plainToInstance(CreateTaskDto | UpdateTaskDto, body): each property is
\* converted to its declared type, then given to its @Transform
BodyToInstance(body) ==
    [f \in DOMAIN body |->
        LET converted == ImplicitConversion(BodyType(f), body[f])
        IN  IF f = "name" THEN TransformTrim(converted) ELSE converted]

\* the property initializers of QueryTaskDto
QueryDefault(f) ==
    CASE f = "page" -> Num(DefaultPage)
      [] f = "limit" -> Num(DefaultLimit)
      [] f = "sortBy" -> Str(DefaultSortBy)
      [] f = "sortOrder" -> Str(DefaultSortOrder)
      [] OTHER -> Undefined

\* plainToInstance(QueryTaskDto, query): as above, on top of the defaults
QueryToInstance(raw) ==
    [f \in DOMAIN raw |->
        IF raw[f].t = "undefined" THEN QueryDefault(f)
        ELSE CASE f \in {"page", "limit"} -> TypeNumber(raw[f])
               [] f = "isActive" ->
                     TransformIsActive(ImplicitConversion("boolean", raw[f]))
               [] f = "search" -> TransformTrim(ImplicitConversion("string", raw[f]))
               [] OTHER -> ImplicitConversion("string", raw[f])]

\* class-validator
IsString(x) == x.t = "string"
IsBoolean(x) == x.t = "boolean"
IsEnum(x, values) == x.t = "string" /\ x.v \in values
IsInt(x) == x.t = "number" /\ x.v # NaN

\* the date strings of the model that are ISO 8601 dates
IsDateString(x) ==
    /\ x.t = "string"
    /\ x.v \in {"2025-08-15", "2025-08-25", "2025-08-25T10:00:00Z"}

NameMinLength == 1
NameMaxLength == 255
MinPage == 1
MinLimit == 1
MaxLimit == 100

\* the decorators of a property, @IsOptional() left aside
ValidField(f, x) ==
    CASE f = "name" ->
            /\ IsString(x)
            /\ Len(x.v) >= NameMinLength
            /\ Len(x.v) <= NameMaxLength
      [] f = "dueDate" -> IsDateString(x)
      [] f = "status" -> IsEnum(x, TaskStatus)
      [] f = "priority" -> IsEnum(x, TaskPriority)
      [] f = "isActive" -> IsBoolean(x)

\* UpdateTaskDto: every property is @IsOptional(), which skips the other
\* decorators when the value is null or undefined
ValidUpdateField(f, x) == IsNullish(x) \/ ValidField(f, x)

\* faulty variant: name and dueDate are @IsOptional() too
ValidCreateFieldAllOptional(f, x) == IsNullish(x) \/ ValidField(f, x)

\* CreateTaskDto: name and dueDate are not @IsOptional()
ValidCreateField(f, x) ==
    IF f \in {"name", "dueDate"} THEN ValidField(f, x) ELSE ValidUpdateField(f, x)

\* QueryTaskDto: every property is @IsOptional()
ValidQueryField(f, x) ==
    \/ IsNullish(x)
    \/ CASE f = "page" -> IsInt(x) /\ x.v >= MinPage
          [] f = "limit" -> IsInt(x) /\ x.v >= MinLimit /\ x.v <= MaxLimit
          [] f = "status" -> IsEnum(x, TaskStatus)
          [] f = "priority" -> IsEnum(x, TaskPriority)
          [] f = "isActive" -> IsBoolean(x)
          [] f = "sortOrder" -> IsEnum(x, {"ASC", "DESC"})
          [] OTHER -> IsString(x)

\* ValidationPipe.transform: the instance and the properties in error
PipeCreate(body) ==
    LET dto == BodyToInstance(body)
    IN  [dto |-> dto,
         violations |-> {f \in DOMAIN dto : ~ValidCreateField(f, dto[f])}]

PipeUpdate(body) ==
    LET dto == BodyToInstance(body)
    IN  [dto |-> dto,
         violations |-> {f \in DOMAIN dto : ~ValidUpdateField(f, dto[f])}]

PipeQuery(raw) ==
    LET dto == QueryToInstance(raw)
    IN  [dto |-> dto,
         violations |-> {f \in DOMAIN dto : ~ValidQueryField(f, dto[f])}]

\* a name one character longer than the DTOs allow
NameTooLong == [i \in 1..(NameMaxLength + 1) |-> "a"]

\* request bodies of POST /tasks, as parsed from JSON
CreateBodies ==
    {Dto(Str(NameA), Str("2025-08-15"), Undefined, Undefined, Undefined),
     Dto(Undefined, Str("2025-08-15"), Undefined, Undefined, Undefined),
     Dto(Str(NameA), Undefined, Str("Done"), Undefined, Undefined),
     EmptyDto,
     Dto(Str(<<>>), Str("invalid-date"), Undefined, Undefined, Undefined),
     Dto(Str(<<" ", "B", "\t">>), Str("2025-08-25"), Str("Done"), Str("Red"),
         Bool(FALSE)),
     Dto(Str(NameA), Str("2025-08-15"), Undefined, Undefined, Str("false")),
     Dto(Str(NameA), Str("2025-08-15"), Undefined, Undefined, Str("true")),
     Dto(Str(<<" ", "a", " ">>), Str("2025-08-15"), Null, Undefined, Undefined),
     Dto(Str(<<" ", " ">>), Str("2025-08-15"), Undefined, Undefined, Undefined),
     Dto(Null, Str("2025-08-15"), Undefined, Undefined, Undefined),
     Dto(Str(NameTooLong), Str("2025-08-15"), Undefined, Undefined, Undefined)}

\* request bodies of PATCH /tasks/:id
UpdateBodies ==
    {EmptyDto,
     Dto(Undefined, Undefined, Str("Paused"), Undefined, Undefined),
     Dto(Undefined, Str("invalid-date"), Undefined, Undefined, Undefined),
     Dto(Undefined, Undefined, Undefined, Undefined, Bool(FALSE)),
     Dto(Undefined, Undefined, Undefined, Undefined, Str("false")),
     Dto(Undefined, Undefined, Undefined, Undefined, Str("true")),
     Dto(Null, Undefined, Undefined, Undefined, Undefined),
     Dto(Undefined, Null, Null, Undefined, Undefined),
     Dto(Undefined, Undefined, Undefined, Null, Undefined),
     Dto(Undefined, Undefined, Undefined, Undefined, Null),
     Dto(Str(<<" ", "\t">>), Undefined, Undefined, Undefined, Undefined),
     Dto(Str(<<" ", "B", " ">>), Undefined, Undefined, Undefined, Undefined)}

\* the identifiers of PATCH requests
PatchIds ==
    {Str(Uuid(1)), Str(<<" ">>), Str(<<"1", "2", "3">>)}

\* query strings of GET /tasks: every value is a string, or absent
RawQueries ==
    [page : {Undefined},
     limit : {Undefined, Str("0")},
     status : {Undefined},
     priority : {Undefined},
     isActive : {Undefined, Str("true"), Str("false")},
     search : {Undefined},
     sortBy : {Undefined},
     sortOrder : {Undefined, Str("ASC")}]

\* the identifiers and queries of the requests made of a failing store
FaultIds ==
    {Str(Uuid(1)), Str(Uuid(2)), Str(<<" ">>), Str(<<"1", "2", "3">>)}

FaultUpdateDtos ==
    {dto \in UpdateDtos :
        \/ dto.status \in {Str("Done"), Null}
        \/ dto.dueDate = Str("invalid-date")}

FaultQueries ==
    {q \in Queries :
        /\ q.page = Undefined /\ q.status = Undefined /\ q.priority = Undefined
        /\ q.isActive = Undefined /\ q.search = Undefined
        /\ q.sortBy = Undefined /\ q.sortOrder = Undefined}

\* the queries whose pages are read one after the other
ScanQueries ==
    {q \in Queries :
        /\ q.page = Undefined /\ q.limit \in {Num(1), Num(2)}
        /\ q.status = Undefined /\ q.priority = Undefined /\ q.search = Undefined
        /\ q.sortBy \in {Undefined, Str("name"), Str("status")}
        /\ q.sortOrder = Undefined}

(***************************************************************************)
(* The state machine.  Requests are served one after the other: an         *)
(* operation of the service runs to completion, then its outcome is        *)
(* returned to the caller, then the next request is taken.                 *)
(***************************************************************************)
Completed(op, id, dto, r) ==
    [op |-> op, id |-> id, dto |-> dto, status |-> r.status,
     message |-> r.message, calls |-> r.calls, task |-> r.task]

Idle ==
    [op |-> "none", id |-> Undefined, dto |-> EmptyDto, status |-> "ok",
     message |-> "", calls |-> <<>>, task |-> NoTask]

Init ==
    /\ store = {}
    /\ now = 0
    /\ nextId = 0
    /\ removed = {}
    /\ last = Idle

Commit(op, id, dto, r) ==
    /\ r.now <= MaxClock
    /\ store' = r.store
    /\ now' = r.now
    /\ nextId' = r.nextId
    /\ last' = Completed(op, id, dto, r)

CreateTask ==
    /\ last = Idle
    /\ \E dto \in CreateDtos :
          Commit("create", Undefined, dto, ServiceCreate(store, now, nextId, dto))
    /\ UNCHANGED removed

GetTask ==
    /\ last = Idle
    /\ \E id \in IdArgs :
          Commit("findOne", id, EmptyDto, ServiceFindOne(store, now, nextId, id))
    /\ UNCHANGED removed

UpdateTask ==
    /\ last = Idle
    /\ \E id \in IdArgs, dto \in UpdateDtos :
          Commit("update", id, dto, ServiceUpdate(store, now, nextId, id, dto))
    /\ UNCHANGED removed

DeleteTask ==
    /\ last = Idle
    /\ \E id \in IdArgs :
          LET r == ServiceRemove(store, now, nextId, id)
          IN  /\ Commit("remove", id, EmptyDto, r)
              /\ removed' = IF r.status = "ok"
                            THEN removed \cup {ToLower(id.v)}
                            ELSE removed

\* the controller returns the outcome to the caller
Return ==
    /\ last # Idle
    /\ last' = Idle
    /\ UNCHANGED <<store, now, nextId, removed>>

Next == CreateTask \/ GetTask \/ UpdateTask \/ DeleteTask \/ Return

Spec == Init /\ [][Next]_vars

(***************************************************************************)
(* The list query over a table of up to MaxRows rows (created, and some    *)
(* updated, by earlier requests).                                          *)
(***************************************************************************)
InitQuery ==
    /\ store \in {S \in SUBSET QueryRows : Cardinality(S) <= MaxRows}
    /\ now = Cardinality(QueryRows) + 1
    /\ nextId = Cardinality(QueryRows)
    /\ removed = {r.id : r \in QueryRows \ store}
    /\ last = Idle

ListTasks ==
    /\ last = Idle
    /\ \E q \in Queries :
          \E ord \in DeliveryOrders(store, q) :
              last' = [op |-> "findAll", query |-> q]
                         @@ ServiceFindAll(store, q, ord)
    /\ UNCHANGED <<store, now, nextId, removed>>

NextQuery == ListTasks \/ Return

SpecQuery == InitQuery /\ [][NextQuery]_vars

(***************************************************************************)
(* Statistics over a table filled by createTask.  A count query may fail   *)
(* in the store (connection lost, statement timeout).                      *)
(***************************************************************************)
CreateStatusTask ==
    /\ last = Idle
    /\ \E dto \in StatusDtos :
          Commit("create", Undefined, dto, ServiceCreate(store, now, nextId, dto))
    /\ UNCHANGED removed

GetStats ==
    /\ last = Idle
    /\ \E failing \in SUBSET DOMAIN StatsQueries :
          last' = [op |-> "getStats", failed |-> failing]
                     @@ ServiceGetStats(store, failing)
    /\ UNCHANGED <<store, now, nextId, removed>>

NextStats == CreateStatusTask \/ GetStats \/ Return

SpecStats == Init /\ [][NextStats]_vars

(***************************************************************************)
(* Requests through the validation pipe: the controller's handler is       *)
(* called with the instance the pipe yields, or not at all when the pipe   *)
(* finds a property in error (400, with one message per property).         *)
(***************************************************************************)
ValidationError(st, clk, n) ==
    Thrown("BadRequestException", "Validation failed", st, clk, n, <<>>)

PostTask ==
    /\ last = Idle
    /\ \E body \in CreateBodies :
          LET pipe == PipeCreate(body)
              r == IF pipe.violations # {}
                   THEN ValidationError(store, now, nextId)
                   ELSE ServiceCreate(store, now, nextId, pipe.dto)
          IN  /\ r.now <= MaxClock
              /\ store' = r.store
              /\ now' = r.now
              /\ nextId' = r.nextId
              /\ last' = [body |-> body, violations |-> pipe.violations]
                            @@ Completed("create", Undefined, pipe.dto, r)
    /\ UNCHANGED removed

PatchTask ==
    /\ last = Idle
    /\ \E id \in PatchIds, body \in UpdateBodies :
          LET pipe == PipeUpdate(body)
              r == IF pipe.violations # {}
                   THEN ValidationError(store, now, nextId)
                   ELSE ServiceUpdate(store, now, nextId, id, pipe.dto)
          IN  /\ r.now <= MaxClock
              /\ store' = r.store
              /\ now' = r.now
              /\ nextId' = r.nextId
              /\ last' = [body |-> body, violations |-> pipe.violations]
                            @@ Completed("update", id, pipe.dto, r)
    /\ UNCHANGED removed

NoMeta == [k \in {} |-> 0]

GetTasks ==
    /\ last = Idle
    /\ \E raw \in RawQueries :
          LET pipe == PipeQuery(raw)
              request == [op |-> "findAll", raw |-> raw, query |-> pipe.dto,
                          violations |-> pipe.violations]
          IN  IF pipe.violations # {}
              THEN last' = request
                      @@ [status |-> "BadRequestException",
                          message |-> "Validation failed", calls |-> <<>>,
                          data |-> <<>>, meta |-> NoMeta]
              ELSE \E ord \in DeliveryOrders(store, pipe.dto) :
                      last' = request @@ ServiceFindAll(store, pipe.dto, ord)
    /\ UNCHANGED <<store, now, nextId, removed>>

NextHttp == PostTask \/ PatchTask \/ DeleteTask \/ GetTasks \/ Return

SpecHttp == Init /\ [][NextHttp]_vars

(***************************************************************************)
(* The operations over a store that may fail one repository call of the    *)
(* request (fault: the call that fails, "none" for a store that works).    *)
(***************************************************************************)
Struck(r, fault) == CallIndex(r.calls, fault) # 0

CommitFaulty(op, id, dto, fault, r) ==
    LET f == WithStoreFailure(op, r, fault, store, now, nextId)
    IN  /\ f.now <= MaxClock
        /\ store' = f.store
        /\ now' = f.now
        /\ nextId' = f.nextId
        /\ last' = [fault |-> fault, struck |-> Struck(r, fault)]
                      @@ Completed(op, id, dto, f)

FaultyCreate ==
    /\ last = Idle
    /\ \E dto \in CreateDtos, fault \in {"none", "save"} :
          CommitFaulty("create", Undefined, dto, fault,
                       ServiceCreate(store, now, nextId, dto))
    /\ UNCHANGED removed

FaultyGet ==
    /\ last = Idle
    /\ \E id \in FaultIds, fault \in {"none", "findOne"} :
          CommitFaulty("findOne", id, EmptyDto, fault,
                       ServiceFindOne(store, now, nextId, id))
    /\ UNCHANGED removed

FaultyUpdate ==
    /\ last = Idle
    /\ \E id \in FaultIds, dto \in FaultUpdateDtos, fault \in {"none", "findOne", "save"} :
          CommitFaulty("update", id, dto, fault,
                       ServiceUpdate(store, now, nextId, id, dto))
    /\ UNCHANGED removed

FaultyDelete ==
    /\ last = Idle
    /\ \E id \in FaultIds, fault \in {"none", "findOne", "remove"} :
          LET r == ServiceRemove(store, now, nextId, id)
          IN  /\ CommitFaulty("remove", id, EmptyDto, fault, r)
              /\ removed' = IF r.status = "ok" /\ ~Struck(r, fault)
                            THEN removed \cup {ToLower(id.v)}
                            ELSE removed

FaultyList ==
    /\ last = Idle
    /\ \E q \in FaultQueries, fault \in {"none", "findAndCount"} :
          \E ord \in DeliveryOrders(store, q) :
              LET r == ServiceFindAll(store, q, ord)
                  e == OnStoreFailure("findAll", fault)
              IN  last' = [op |-> "findAll", query |-> q, fault |-> fault,
                           struck |-> Struck(r, fault)]
                          @@ (IF Struck(r, fault)
                              THEN [status |-> e.class, message |-> e.message,
                                    calls |-> r.calls, data |-> <<>>,
                                    meta |-> [k \in {} |-> 0]]
                              ELSE r)
    /\ UNCHANGED <<store, now, nextId, removed>>

NextFaulty ==
    \/ FaultyCreate \/ FaultyGet \/ FaultyUpdate \/ FaultyDelete
    \/ FaultyList \/ GetStats \/ Return

SpecFaulty == Init /\ [][NextFaulty]_vars

(***************************************************************************)
(* Reading a listing page by page: a client asks for page 1, then, while   *)
(* the page just read is not the last, for the next page of the same       *)
(* query.  Each page is a query of its own: the store sorts again, and     *)
(* rows that tie on the sort field may come in another order.              *)
(***************************************************************************)
PageOf(q, k, ord) == ServiceFindAll(store, [q EXCEPT !.page = Num(k)], ord)

ReadFirstPage ==
    /\ last = Idle
    /\ \E q \in ScanQueries :
          \E ord \in DeliveryOrders(store, q) :
              LET r == PageOf(q, 1, ord)
              IN  last' = [op |-> "scan", query |-> q, page |-> 1,
                           totalPages |-> r.meta.totalPages,
                           status |-> r.status, seen |-> r.data]
    /\ UNCHANGED <<store, now, nextId, removed>>

ReadNextPage ==
    /\ last.op = "scan"
    /\ last.page < last.totalPages
    /\ \E ord \in DeliveryOrders(store, last.query) :
          LET r == PageOf(last.query, last.page + 1, ord)
          IN  last' = [last EXCEPT !.page = last.page + 1,
                                   !.totalPages = r.meta.totalPages,
                                   !.seen = last.seen \o r.data]
    /\ UNCHANGED <<store, now, nextId, removed>>

NextScan == ReadFirstPage \/ ReadNextPage \/ Return

SpecScan == InitQuery /\ [][NextScan]_vars

(***************************************************************************)
(* Concurrent requests.  Node serves each request as a chain of awaits:    *)
(* between two repository calls of one request the calls of other requests *)
(* may run.  A step of the model is one repository call (a save or a       *)
(* remove of an entity found earlier, one of the six counts of getStats);  *)
(* the requests in flight are kept in last.req, each with its position pc, *)
(* the entity its lookup found and, when done, its outcome.                *)
(***************************************************************************)
TaskX == Uuid(1)

\* the requests served concurrently: two updates and a delete of task X, a
\* create, a getStats and a getTask of X
ConcRequests == {"U1", "U2", "D", "C", "S", "G"}

ConcDto ==
    [U1 |-> Dto(Undefined, Undefined, Str("Done"), Undefined, Undefined),
     U2 |-> Dto(Str(NameB), Undefined, Undefined, Undefined, Undefined),
     C |-> Dto(Str(NameA), Str("2025-08-25"), Str("Paused"), Undefined, Undefined)]

\* the table when the requests arrive: task X, pending
ConcStore == {Row(1, NameA, 20250815, "Pending", "Blue", TRUE, 1, 1)}

NewRequest ==
    [pc |-> "idle", status |-> "", message |-> "", task |-> NoTask,
     counts |-> <<>>, stats |-> NoStats, torn |-> FALSE]

InitConc ==
    /\ store = ConcStore
    /\ now = 1
    /\ nextId = 1
    /\ removed = {}
    /\ last = [op |-> "concurrent", req |-> [r \in ConcRequests |-> NewRequest]]

\* update() from the line after findOne: the entity found is assigned to and
\* saved
UpdateFound(st, clk, n, entity, dto) ==
    LET task == ObjectAssign(entity, UpdateData(dto))
        saved == RepoSaveExisting(st, clk, task)
        rows == RepoFindOne(saved.store, task.id.v)
    IN  IF Truthy(dto.dueDate) /\ IsNaN(NewDate(dto.dueDate))
        THEN Thrown("BadRequestException", "Invalid due date format",
                    st, clk, n, <<"findOne">>)
        ELSE IF ~saved.ok
        THEN Thrown("BadRequestException", "Failed to update task",
                    st, clk, n, <<"findOne", "save">>)
        ELSE Returned(saved.store, saved.now, n, <<"findOne", "save">>,
                      Hydrate(CHOOSE r \in rows : TRUE))

\* remove() from the line after findOne
RemoveFound(st, clk, n, entity) ==
    Returned(RepoRemove(st, entity), clk, n, <<"findOne", "remove">>, NoTask)

\* the object getStats returns from the six counts
StatsOf(counts) ==
    LET all == PromiseAll(counts)
    IN  [total |-> all.value[1], pending |-> all.value[2],
         inProgress |-> all.value[3], done |-> all.value[4],
         paused |-> all.value[5], active |-> all.value[6]]

\* one repository call of request r takes effect; history: a getStats that
\* is between two of its counts when the table changes is marked torn
ConcStep(r, rq, st, clk, n) ==
    /\ store' = st
    /\ now' = clk
    /\ nextId' = n
    /\ last' = [last EXCEPT !.req =
                  [x \in ConcRequests |->
                      IF x = r THEN rq
                      ELSE IF x = "S" /\ st # store /\ last.req.S.pc = "counting"
                      THEN [last.req.S EXCEPT !.torn = TRUE]
                      ELSE last.req[x]]]
    /\ UNCHANGED removed

Outcome(rq, r) ==
    [rq EXCEPT !.pc = "done", !.status = r.status, !.message = r.message,
               !.task = r.task]

\* findOne of update() or remove(): the entity is held until the next call
ConcLookup ==
    /\ last.op = "concurrent"
    /\ \E r \in {"U1", "U2", "D"} :
          /\ last.req[r].pc = "idle"
          /\ LET found == ServiceFindOne(store, now, nextId, Str(TaskX))
             IN  ConcStep(r, IF found.status = "ok"
                             THEN [last.req[r] EXCEPT !.pc = "found",
                                                      !.task = found.task]
                             ELSE Outcome(last.req[r], found),
                          store, now, nextId)

\* the save of an update whose lookup has found the task
ConcSave ==
    /\ last.op = "concurrent"
    /\ \E r \in {"U1", "U2"} :
          /\ last.req[r].pc = "found"
          /\ LET u == UpdateFound(store, now, nextId, last.req[r].task, ConcDto[r])
             IN  ConcStep(r, Outcome(last.req[r], u), u.store, u.now, u.nextId)

\* the remove of a delete whose lookup has found the task
ConcRemove ==
    /\ last.op = "concurrent"
    /\ last.req.D.pc = "found"
    /\ LET d == RemoveFound(store, now, nextId, last.req.D.task)
       IN  ConcStep("D", Outcome(last.req.D, d), d.store, d.now, d.nextId)

\* create(): its one repository call
ConcCreate ==
    /\ last.op = "concurrent"
    /\ last.req.C.pc = "idle"
    /\ LET c == ServiceCreate(store, now, nextId, ConcDto.C)
       IN  ConcStep("C", Outcome(last.req.C, c), c.store, c.now, c.nextId)

\* findOne(X), asked for once the updates and the delete have completed: its
\* one repository call
ConcGet ==
    /\ last.op = "concurrent"
    /\ last.req.G.pc = "idle"
    /\ \A r \in {"U1", "U2", "D"} : last.req[r].pc = "done"
    /\ LET g == ServiceFindOne(store, now, nextId, Str(TaskX))
       IN  ConcStep("G", Outcome(last.req.G, g), store, now, nextId)

\* one of the six counts of getStats is answered, in any order; with the
\* sixth the promise of Promise.all is fulfilled and the object is returned
ConcCount ==
    /\ last.op = "concurrent"
    /\ last.req.S.pc \in {"idle", "counting"}
    /\ \E i \in DOMAIN StatsQueries \ DOMAIN last.req.S.counts :
          LET rq == last.req.S
              counts == [j \in DOMAIN rq.counts \cup {i} |->
                            IF j = i
                            THEN Fulfilled(Num(RepoCount(store, StatsQueries[i])))
                            ELSE rq.counts[j]]
          IN  ConcStep("S",
                       IF DOMAIN counts = DOMAIN StatsQueries
                       THEN [rq EXCEPT !.pc = "done", !.status = "ok",
                                       !.counts = counts,
                                       !.stats = StatsOf(counts)]
                       ELSE [rq EXCEPT !.pc = "counting", !.counts = counts],
                       store, now, nextId)

NextConc ==
    ConcLookup \/ ConcSave \/ ConcRemove \/ ConcCreate \/ ConcGet \/ ConcCount

SpecConc == InitConc /\ [][NextConc]_vars

(***************************************************************************)
(* Vocabulary of the properties.                                           *)
(***************************************************************************)
ByIdOps == {"findOne", "update", "remove"}

HexDigits ==
    {"0", "1", "2", "3", "4", "5", "6", "7", "8", "9",
     "a", "b", "c", "d", "e", "f", "A", "B", "C", "D", "E", "F"}

\* absent, empty or made of white space only
BlankId(id) ==
    id.t \in {"undefined", "null"} \/ \A i \in DOMAIN id.v : id.v[i] \in WhiteSpace

\* 8-4-4-4-12 hexadecimal digits, in either case
CanonicalId(id) ==
    /\ id.t = "string"
    /\ Len(id.v) = 8 + 4 + 4 + 4 + 12 + 4
    /\ \A i \in DOMAIN id.v :
          IF i \in {8 + 1, 8 + 4 + 2, 8 + 4 + 4 + 3, 8 + 4 + 4 + 4 + 4}
          THEN id.v[i] = "-"
          ELSE id.v[i] \in HexDigits

\* the rows a request's identifier designates
RowsOf(st, id) == {r \in st : r.id = ToLower(id.v)}

Required(l) ==
    l.status = "BadRequestException" /\ l.message = "Task ID is required"

Malformed(l) ==
    l.status = "BadRequestException" /\ l.message = "Invalid task ID format"

InvalidDate(l) ==
    l.status = "BadRequestException" /\ l.message = "Invalid due date format"

NotFound(l) == l.status = "NotFoundException"

\* a supplied dueDate string that does not parse
BadDueDate(dto) ==
    dto.dueDate.t = "string" /\ dto.dueDate.v # "" /\ IsNaN(DateParse(dto.dueDate.v))

(***************************************************************************)
(* C1.  A successful update of an existing task leaves every column whose  *)
(* property is absent from the payload as it was, and refreshes updatedAt  *)
(* (the row's updatedAt after the update is later than before it).         *)
(* Stated for payloads that supply at least one property.                  *)
(* Fails: save() issues no UPDATE when no supplied value differs from the  *)
(* stored one, so updatedAt keeps its old value.                           *)
(***************************************************************************)
C1_UpdateAppliesPresentFieldsAndRefreshes ==
    [][(last'.op = "update" /\ last'.status = "ok"
          /\ \E f \in DtoFields : last'.dto[f].t # "undefined") =>
          \A before \in RowsOf(store, last'.id) :
             \E after \in RowsOf(store', last'.id) :
                /\ \A f \in DtoFields :
                      last'.dto[f].t = "undefined" => after[f] = before[f]
                /\ after.updatedAt > before.updatedAt]_vars

(***************************************************************************)
(* C2.  getTask, updateTask and deleteTask with an absent, empty or        *)
(* whitespace-only identifier fail with "Task ID is required" and call no  *)
(* repository method.                                                      *)
(***************************************************************************)
C2_BlankIdIsRequiredError ==
    (last.op \in ByIdOps /\ BlankId(last.id)) =>
        Required(last) /\ last.calls = <<>>

C2_Witness ==
    /\ last.op = "update"
    /\ last.id = Str(<<" ", " ">>)
    /\ last.dto.status = Str("Done")
    /\ Required(last)
    /\ store # {}

(***************************************************************************)
(* C3.  The same three operations with a non-blank identifier that is not  *)
(* of the 8-4-4-4-12 hexadecimal shape fail with "Invalid task ID format"  *)
(* (not with "Task ID is required") and call no repository method.         *)
(***************************************************************************)
C3_MalformedIdIsFormatError ==
    (last.op \in ByIdOps /\ ~BlankId(last.id) /\ ~CanonicalId(last.id)) =>
        Malformed(last) /\ ~Required(last) /\ last.calls = <<>>

C3_Witness ==
    /\ last.op = "remove"
    /\ last.id = Str(Uuid(1) \o <<" ">>)
    /\ Malformed(last)
    /\ RowsOf(store, Str(Uuid(1))) # {}

(***************************************************************************)
(* C4.  The same three operations with a well-formed identifier of no      *)
(* stored task fail with NotFoundException; the table is left as it was    *)
(* and neither save nor remove is called.                                  *)
(***************************************************************************)
C4_UnknownIdIsNotFound ==
    [][(last'.op \in ByIdOps /\ CanonicalId(last'.id)
          /\ RowsOf(store, last'.id) = {}) =>
          /\ NotFound(last')
          /\ last'.calls = <<"findOne">>
          /\ store' = store]_vars

C4_Witness ==
    /\ last.op = "update"
    /\ last.id = Str(Uuid(9))
    /\ last.dto.status = Str("Done")
    /\ NotFound(last)
    /\ store # {}

(***************************************************************************)
(* C5.  createTask with a dueDate string that does not parse fails with    *)
(* "Invalid due date format"; neither create nor save is called and the    *)
(* table is left as it was.                                                *)
(***************************************************************************)
C5_CreateBadDateWritesNothing ==
    [][(last'.op = "create" /\ BadDueDate(last'.dto)) =>
          /\ InvalidDate(last')
          /\ last'.calls = <<>>
          /\ store' = store
          /\ nextId' = nextId]_vars

C5_Witness ==
    /\ last.op = "create"
    /\ last.dto.dueDate = Str("invalid-date")
    /\ InvalidDate(last)

C7_DeletedStaysDeleted ==
    /\ \A r \in store : r.id \notin removed
    /\ (last.op = "findOne" /\ last.id.t = "string"
          /\ ToLower(last.id.v) \in removed) => NotFound(last)

C7_Witness ==
    /\ last.op = "findOne"
    /\ last.id = Str(Uuid(1))
    /\ Uuid(1) \in removed
    /\ NotFound(last)
    /\ store # {}

(***************************************************************************)
(* Vocabulary of the properties of the list query.                         *)
(***************************************************************************)
\* name contains s as a literal substring, letter case ignored
ContainsIgnoreCase(name, s) ==
    \E i \in 0..(Len(name) - Len(s)) :
        ToLower(SubSeq(name, i + 1, i + Len(s))) = ToLower(s)

SearchSupplied(q) == q.search.t = "string" /\ q.search.v # <<>>

\* the row passes every filter the query supplies
Satisfies(q, r) ==
    /\ q.status.t # "undefined" => r.status = q.status.v
    /\ q.priority.t # "undefined" => r.priority = q.priority.v
    /\ q.isActive.t # "undefined" => r.isActive = q.isActive.v
    /\ SearchSupplied(q) => ContainsIgnoreCase(r.name, q.search.v)

\* the same, the name filter left out
SatisfiesEqualities(q, r) ==
    /\ q.status.t # "undefined" => r.status = q.status.v
    /\ q.priority.t # "undefined" => r.priority = q.priority.v
    /\ q.isActive.t # "undefined" => r.isActive = q.isActive.v

RequestedPage(q) == IF q.page.t = "undefined" THEN 1 ELSE q.page.v
RequestedLimit(q) == IF q.limit.t = "undefined" THEN 10 ELSE q.limit.v

Elements(seq) == {seq[i] : i \in DOMAIN seq}

(***************************************************************************)
(* C8.  For every combination of supplied status, priority, isActive and   *)
(* name-search filters, every record returned by listTasks satisfies all   *)
(* the supplied filters, and meta.total is the number of stored records    *)
(* that satisfy all of them.                                               *)
(* Fails through the name filter alone (see C9): a record whose name       *)
(* differs from the search string in letter case is left out of the count, *)
(* and a record matched through a wildcard is returned.                    *)
(***************************************************************************)
C8_FiltersAreConjunctive ==
    last.op = "findAll" =>
        /\ \A r \in Elements(last.data) : Satisfies(last.query, r)
        /\ last.meta.total =
              Cardinality({r \in store : Satisfies(last.query, r)})

\* With no name search supplied the filters are conjunctive as claimed.
C8_EqualityFiltersAreConjunctive ==
    (last.op = "findAll" /\ ~SearchSupplied(last.query)) =>
        /\ \A r \in Elements(last.data) : SatisfiesEqualities(last.query, r)
        /\ last.meta.total =
              Cardinality({r \in store : SatisfiesEqualities(last.query, r)})

(***************************************************************************)
(* C9.  With a non-empty search string s as the only filter, the records   *)
(* listTasks matches are exactly the stored tasks whose name contains s as *)
(* a literal substring, letter case ignored.  (First page, default limit:  *)
(* the page holds every matching record.)                                  *)
(* Fails: the name clause is LIKE '%s%', which on PostgreSQL compares case *)
(* and reads % and _ in s as wildcards.                                    *)
(***************************************************************************)
C9_SearchIsCaseInsensitiveSubstring ==
    (/\ last.op = "findAll"
     /\ SearchSupplied(last.query)
     /\ last.query.status.t = "undefined"
     /\ last.query.priority.t = "undefined"
     /\ last.query.isActive.t = "undefined"
     /\ last.query.page.t = "undefined"
     /\ last.query.limit.t = "undefined") =>
        Elements(last.data) =
            {r \in store : ContainsIgnoreCase(r.name, last.query.search.v)}

(***************************************************************************)
(* C10.  listTasks returns the records at positions offset + 1 ..          *)
(* offset + limit, offset = (page - 1) * limit, of the selected records in *)
(* the requested order (as many of them as exist), so at most limit        *)
(* records; meta.page and meta.limit are the requested (or default) page   *)
(* and limit; a page beyond totalPages yields no record and no error.      *)
(***************************************************************************)
C10_PageIsSliceAtOffset ==
    last.op = "findAll" =>
        LET q == last.query
            page == RequestedPage(q)
            limit == RequestedLimit(q)
            offset == (page - 1) * limit
            selected == {r \in store : RowMatches(WhereOf(q), r)}
            rest == Cardinality(selected) - offset
            count == IF rest <= 0 THEN 0 ELSE IF rest < limit THEN rest ELSE limit
        IN  /\ \E o \in DeliveryOrders(store, q) :
                  last.data = [i \in 1..count |-> o[offset + i]]
            /\ Len(last.data) <= limit
            /\ last.meta.page = page
            /\ last.meta.limit = limit
            /\ last.status = "ok"
            /\ page > last.meta.totalPages => last.data = <<>>

C10_Witness ==
    /\ last.op = "findAll"
    /\ last.query.page = Num(2)
    /\ last.query.limit = Num(2)
    /\ last.query.sortBy = Str("name")
    /\ last.meta.total = 3
    /\ Len(last.data) = 1
    /\ last.data[1].name = <<"a", "x", "b">>

(***************************************************************************)
(* C11.  The metadata of listTasks: totalPages is the ceiling of           *)
(* total / limit (the least number of pages of limit records that hold     *)
(* total records), hasNext is page < totalPages, hasPrev is page > 1.      *)
(* So total = 0 gives totalPages = 0 and no next page; total = 2 with      *)
(* limit = 10 gives one page, with neither next nor previous page on page  *)
(* 1; page 2 with total = 2 and limit = 1 gives two pages and a previous   *)
(* page.                                                                   *)
(***************************************************************************)
C11_MetadataIsConsistent ==
    last.op = "findAll" =>
        LET m == last.meta
        IN  /\ m.totalPages >= 0
            /\ m.totalPages * m.limit >= m.total
            /\ (m.totalPages - 1) * m.limit < m.total
            /\ m.hasNext = (m.page < m.totalPages)
            /\ m.hasPrev = (m.page > 1)
            /\ m.total = 0 => (m.totalPages = 0 /\ ~m.hasNext)
            /\ (m.total = 2 /\ m.limit = 10) =>
                  (m.totalPages = 1 /\ (m.page = 1 => ~m.hasNext /\ ~m.hasPrev))
            /\ (m.page = 2 /\ m.total = 2 /\ m.limit = 1) =>
                  (m.totalPages = 2 /\ m.hasPrev /\ ~m.hasNext)

C11_Witness ==
    /\ last.op = "findAll"
    /\ last.meta.total = 3
    /\ last.meta.limit = 2
    /\ last.meta.page = 1
    /\ last.meta.totalPages = 2
    /\ last.meta.hasNext
    /\ ~last.meta.hasPrev

(***************************************************************************)
(* Vocabulary of the properties of the sort order.                         *)
(***************************************************************************)
\* the character codes of the characters of the names
CodeOf(c) ==
    CASE c = " " -> 32 [] c = "%" -> 37 [] c = "A" -> 65 [] c = "B" -> 66
      [] c = "X" -> 88 [] c = "_" -> 95 [] c = "a" -> 97 [] c = "b" -> 98
      [] c = "x" -> 120

\* a = b, or a is a proper prefix of b, or a has the smaller character at
\* the first position where the two differ
LexLeq(a, b) ==
    \/ Len(a) <= Len(b) /\ \A i \in 1..Len(a) : a[i] = b[i]
    \/ \E k \in 1..Len(a) :
          /\ k <= Len(b)
          /\ \A i \in 1..(k - 1) : a[i] = b[i]
          /\ CodeOf(a[k]) < CodeOf(b[k])

RequestedOrder(q) == IF q.sortOrder.t = "undefined" THEN "DESC" ELSE q.sortOrder.v

RequestedSortBy(q) ==
    IF q.sortBy.t = "undefined" THEN "dateOfCreation" ELSE q.sortBy.v

AllowList == {"name", "dueDate", "status", "priority", "dateOfCreation"}

\* record a is not after record b in ascending order of the field
FieldLeq(field, a, b) ==
    CASE field = "name" -> LexLeq(a.name, b.name)
      [] field = "status" -> StatusRank(a.status) <= StatusRank(b.status)
      [] field = "priority" -> PriorityRank(a.priority) <= PriorityRank(b.priority)
      [] field = "dueDate" -> a.dueDate <= b.dueDate
      [] field = "dateOfCreation" -> a.dateOfCreation <= b.dateOfCreation

\* the records of a page are in the order dir of the field
InOrder(data, field, dir) ==
    \A i, j \in DOMAIN data :
        i < j => IF dir = "ASC" THEN FieldLeq(field, data[i], data[j])
                 ELSE FieldLeq(field, data[j], data[i])

(***************************************************************************)
(* C12.  listTasks sorted by name returns its records with names in non-   *)
(* decreasing lexical order when the direction is ascending and in non-    *)
(* increasing order when it is descending; with no direction given the     *)
(* order is the descending one.  (Lexical order is the store's order of    *)
(* text values, here the order of character codes.)                        *)
(***************************************************************************)
C12_NameSortFollowsDirection ==
    (last.op = "findAll" /\ last.query.sortBy = Str("name")) =>
        /\ last.query.sortOrder = Str("ASC") => InOrder(last.data, "name", "ASC")
        /\ last.query.sortOrder = Str("DESC") => InOrder(last.data, "name", "DESC")
        /\ last.query.sortOrder = Undefined => InOrder(last.data, "name", "DESC")

C12_Witness ==
    /\ last.op = "findAll"
    /\ last.query.sortBy = Str("name")
    /\ last.query.sortOrder = Undefined
    /\ Len(last.data) = 3
    /\ last.data[1].name = <<"a", "x", "b">>
    /\ last.data[2].name = <<"a", "b">>
    /\ last.data[3].name = <<"A", "B">>

(***************************************************************************)
(* C13.  A requested sort field outside the allow-list {name, dueDate,     *)
(* status, priority, dateOfCreation} raises no error: the records come in  *)
(* the order of their creation time, and the result is one the same        *)
(* request made with sort field dateOfCreation returns.  A field of the    *)
(* allow-list is the one the records are ordered by.                       *)
(***************************************************************************)
C13_UnknownSortFieldFallsBack ==
    last.op = "findAll" =>
        LET q == last.query
            requested == RequestedSortBy(q)
            byCreation == [q EXCEPT !.sortBy = Str("dateOfCreation")]
        IN  /\ last.status = "ok"
            /\ requested \in AllowList =>
                  InOrder(last.data, requested, RequestedOrder(q))
            /\ requested \notin AllowList =>
                  /\ InOrder(last.data, "dateOfCreation", RequestedOrder(q))
                  /\ \E o \in DeliveryOrders(store, byCreation) :
                        /\ last.data = ServiceFindAll(store, byCreation, o).data
                        /\ last.meta = ServiceFindAll(store, byCreation, o).meta

C13_Witness ==
    /\ last.op = "findAll"
    /\ last.query.sortBy = Str("createdAt")
    /\ last.query.sortOrder = Str("ASC")
    /\ last.status = "ok"
    /\ Len(last.data) = 3
    /\ last.data[1].name = <<"A", "B">>
    /\ last.data[2].name = <<"a", "x", "b">>
    /\ last.data[3].name = <<"a", "%", "b">>

(***************************************************************************)
(* Vocabulary of the properties of the statistics.                         *)
(***************************************************************************)
StatsFields == {"total", "pending", "inProgress", "done", "paused", "active"}

CountWhere(st, P(_)) == Cardinality({r \in st : P(r)})

IsPending(r) == r.status = "Pending"
IsInProgress(r) == r.status = "In Progress"
IsDone(r) == r.status = "Done"
IsPaused(r) == r.status = "Paused"
IsActive(r) == r.isActive
IsAny(r) == TRUE

\* the statistics object holds the six counts n0 .. n5
StatsAre(stats, total, pending, inProgress, done, paused, active) ==
    /\ DOMAIN stats = StatsFields
    /\ stats.total = [t |-> "number", v |-> total]
    /\ stats.pending = [t |-> "number", v |-> pending]
    /\ stats.inProgress = [t |-> "number", v |-> inProgress]
    /\ stats.done = [t |-> "number", v |-> done]
    /\ stats.paused = [t |-> "number", v |-> paused]
    /\ stats.active = [t |-> "number", v |-> active]

(***************************************************************************)
(* C14.  getStats, when no count query fails, returns six counts over the  *)
(* whole table: total is the number of rows, pending / inProgress / done / *)
(* paused the number of rows of that status, active the number of rows     *)
(* with isActive = true.  On the empty table all six are 0; on a table of  *)
(* one task of each status total is 4 and each status count is 1.          *)
(***************************************************************************)
C14_StatsCountTheCollection ==
    (last.op = "getStats" /\ last.failed = {}) =>
        /\ last.status = "ok"
        /\ StatsAre(last.stats, CountWhere(store, IsAny),
                    CountWhere(store, IsPending), CountWhere(store, IsInProgress),
                    CountWhere(store, IsDone), CountWhere(store, IsPaused),
                    CountWhere(store, IsActive))
        /\ store = {} => StatsAre(last.stats, 0, 0, 0, 0, 0, 0)
        /\ (Cardinality(store) = 4
              /\ \A x \in {"Pending", "Done", "In Progress", "Paused"} :
                    \E r \in store : r.status = x) =>
              /\ last.stats.total.v = 4
              /\ last.stats.pending.v = 1
              /\ last.stats.inProgress.v = 1
              /\ last.stats.done.v = 1
              /\ last.stats.paused.v = 1

C14_Witness ==
    /\ last.op = "getStats"
    /\ last.status = "ok"
    /\ Cardinality(store) = 4
    /\ \A x \in {"Pending", "Done", "In Progress", "Paused"} :
          \E r \in store : r.status = x
    /\ StatsAre(last.stats, 4, 1, 1, 1, 1, 4)

(***************************************************************************)
(* C15.  If any of the six count queries of getStats fails, getStats fails *)
(* with an error and returns nothing; whatever the outcome, the result is  *)
(* either all six counts or none of them.                                  *)
(***************************************************************************)
C15_StatsAreAllOrNothing ==
    last.op = "getStats" =>
        /\ last.failed # {} => (last.status # "ok" /\ DOMAIN last.stats = {})
        /\ last.status = "ok" =>
              /\ DOMAIN last.stats = StatsFields
              /\ \A f \in StatsFields : last.stats[f].t = "number"
        /\ last.status # "ok" => DOMAIN last.stats = {}

C15_Witness ==
    /\ last.op = "getStats"
    /\ last.failed = {3}
    /\ last.status = "BadRequestException"
    /\ last.message = "Failed to fetch task statistics"
    /\ DOMAIN last.stats = {}
    /\ Cardinality(store) = 2

(***************************************************************************)
(* Vocabulary of the properties of the validation layer.                   *)
(***************************************************************************)
ValidationFailed(l) ==
    l.status = "BadRequestException" /\ l.message = "Validation failed"

Absent(x) == x.t = "undefined"

(***************************************************************************)
(* C16.  createTask with name absent, or with dueDate absent, fails with a *)
(* validation error that names each absent one of the two; the service is  *)
(* not called and no task is stored.  On updateTask an absent property is  *)
(* never among the properties in error.                                    *)
(***************************************************************************)
C16_MissingRequiredFieldIsRejected ==
    [][/\ (last'.op = "create"
            /\ (Absent(last'.body.name) \/ Absent(last'.body.dueDate))) =>
            /\ ValidationFailed(last')
            /\ \A f \in {"name", "dueDate"} :
                  Absent(last'.body[f]) => f \in last'.violations
            /\ last'.calls = <<>>
            /\ store' = store
       /\ last'.op = "update" =>
            \A f \in {"name", "dueDate", "status", "priority", "isActive"} :
                Absent(last'.body[f]) => f \notin last'.violations]_vars

C16_Witness ==
    /\ last.op = "create"
    /\ Absent(last.body.name)
    /\ last.body.dueDate = Str("2025-08-15")
    /\ ValidationFailed(last)
    /\ last.violations = {"name"}
    /\ store # {}

(***************************************************************************)
(* C17.  A task created without status has status Pending, without         *)
(* priority has priority Blue, without isActive has isActive = true; a     *)
(* status, a priority or a boolean isActive that is supplied is the one    *)
(* stored, and the one in the task returned.                               *)
(***************************************************************************)
C17_CreateAppliesDefaults ==
    [][(last'.op = "create" /\ last'.status = "ok") =>
          \E r \in store' \ store :
             /\ last'.task.id = [t |-> "string", v |-> r.id]
             /\ r.status = IF Absent(last'.body.status) THEN "Pending"
                            ELSE last'.body.status.v
             /\ r.priority = IF Absent(last'.body.priority) THEN "Blue"
                              ELSE last'.body.priority.v
             /\ Absent(last'.body.isActive) => r.isActive = TRUE
             /\ last'.body.isActive.t = "boolean" =>
                   r.isActive = last'.body.isActive.v
             /\ last'.task.status.v = r.status
             /\ last'.task.priority.v = r.priority
             /\ last'.task.isActive.v = r.isActive]_vars

C17_Witness ==
    /\ last.op = "create"
    /\ last.status = "ok"
    /\ Absent(last.body.status)
    /\ Absent(last.body.priority)
    /\ Absent(last.body.isActive)
    /\ last.task.status.v = "Pending"
    /\ last.task.priority.v = "Blue"
    /\ last.task.isActive.v = TRUE
    /\ \E r \in store :
          r.status = "Done" /\ r.priority = "Red" /\ r.isActive = FALSE

(***************************************************************************)
(* C18.  On the query of listTasks, isActive given as the string "true"    *)
(* becomes the boolean true and given as "false" the boolean false, and    *)
(* the records returned are the active, respectively the inactive, ones.   *)
(* Fails under the configuration of main.ts: with enableImplicitConversion *)
(* the string is first converted by Boolean(), which yields true for       *)
(* "false" as well, and the property's own transform is given that         *)
(* boolean; isActive=false lists the active records.                       *)
(***************************************************************************)
C18_QueryIsActiveStringIsCoerced ==
    (last.op = "findAll" /\ last.raw.isActive \in {Str("true"), Str("false")}) =>
        LET wanted == (last.raw.isActive = Str("true"))
        IN  /\ "isActive" \notin last.violations
            /\ last.query.isActive = [t |-> "boolean", v |-> wanted]
            /\ \A i \in DOMAIN last.data : last.data[i].isActive = wanted

(***************************************************************************)
(* C19.  On the payloads of createTask and updateTask an isActive that is  *)
(* not a boolean (the strings "true" and "false" included) is a validation *)
(* error: the request fails and no task is created or changed.             *)
(* Fails under the configuration of main.ts: the string is converted by    *)
(* Boolean() before @IsBoolean() looks at it, so both strings are accepted *)
(* and stored as true.                                                     *)
(***************************************************************************)
C19_StringIsActiveIsRejectedOnWrite ==
    [][(last'.op \in {"create", "update"}
          /\ last'.body.isActive.t \notin {"undefined", "boolean"}) =>
          /\ ValidationFailed(last')
          /\ "isActive" \in last'.violations
          /\ store' = store]_vars

(***************************************************************************)
(* C20.  updateTask on an existing task with an empty payload succeeds,    *)
(* leaves name, dueDate, status, priority and isActive as they were, and   *)
(* refreshes updatedAt.                                                    *)
(* Fails in the last part: save() finds no changed column and issues no    *)
(* UPDATE, so neither the update-date column nor the table's trigger sets  *)
(* updatedAt.                                                              *)
(***************************************************************************)
C20_EmptyUpdateRefreshesUpdatedAt ==
    [][(last'.op = "update" /\ last'.dto = EmptyDto
          /\ CanonicalId(last'.id) /\ RowsOf(store, last'.id) # {}) =>
          /\ last'.status = "ok"
          /\ \A before \in RowsOf(store, last'.id) :
                \E after \in RowsOf(store', last'.id) :
                   /\ after.name = before.name
                   /\ after.dueDate = before.dueDate
                   /\ after.status = before.status
                   /\ after.priority = before.priority
                   /\ after.isActive = before.isActive
                   /\ after.updatedAt > before.updatedAt]_vars

\* The part of C20 that holds: the empty update succeeds and changes no row.
C20_EmptyUpdateChangesNothing ==
    [][(last'.op = "update" /\ last'.dto = EmptyDto
          /\ CanonicalId(last'.id) /\ RowsOf(store, last'.id) # {}) =>
          (last'.status = "ok" /\ store' = store)]_vars

(***************************************************************************)
(* Vocabulary of the properties of the error kinds.                        *)
(***************************************************************************)
\* the error is the store's own, or one of the three "Failed to ..." errors
\* the service raises for a store call that failed
PersistenceFailure(l) ==
    \/ l.status \notin {"ok", "BadRequestException", "NotFoundException"}
    \/ /\ l.status = "BadRequestException"
       /\ l.message \in {"Failed to update task", "Failed to delete task",
                          "Failed to fetch task statistics"}

\* the store failed a call of the last request
StoreFailed(l) ==
    \/ l.op \in {"create", "findOne", "update", "remove", "findAll"} /\ l.struck
    \/ l.op = "getStats" /\ l.failed # {}

(***************************************************************************)
(* C21.  When a store call of createTask, listTasks, getTask, updateTask,  *)
(* deleteTask or getStats fails, the operation fails with a persistence    *)
(* failure: the store's error or the service's "Failed to ..." error,      *)
(* which is none of the validation, date-format, missing-identifier,       *)
(* malformed-identifier and not-found errors.                              *)
(***************************************************************************)
C21_StoreFailureIsPersistenceFailure ==
    (last.op # "none" /\ StoreFailed(last)) =>
        /\ last.status # "ok"
        /\ PersistenceFailure(last)
        /\ ~ValidationFailed(last)
        /\ ~InvalidDate(last)
        /\ ~Required(last)
        /\ ~Malformed(last)
        /\ ~NotFound(last)

C21_Witness ==
    /\ last.op = "update"
    /\ last.fault = "findOne"
    /\ last.struck
    /\ last.dto.status = Str("Done")
    /\ last.status = "QueryFailedError"
    /\ RowsOf(store, last.id) # {}

(***************************************************************************)
(* C22.  Through any sequence of createTask, updateTask and deleteTask     *)
(* requests whose payloads pass validation (payloads with null for an      *)
(* optional property among them), every stored task has a status among     *)
(* Pending, Done, In Progress, Paused, a priority among Red, Yellow, Blue  *)
(* (so neither is null), and a name of at most 255 characters that is not  *)
(* empty once trimmed.                                                     *)
(***************************************************************************)
C22_StoredTasksAreWellFormed ==
    \A r \in store :
        /\ r.status \in {"Pending", "Done", "In Progress", "Paused"}
        /\ r.priority \in {"Red", "Yellow", "Blue"}
        /\ \E i \in DOMAIN r.name : r.name[i] \notin {" ", "\t", "\n"}
        /\ Len(r.name) <= 255

C22_Witness ==
    /\ last.op = "update"
    /\ last.body.status = Null
    /\ last.violations = {}
    /\ last.status = "BadRequestException"
    /\ last.message = "Failed to update task"
    /\ \E r \in RowsOf(store, last.id) : r.status = "Done" /\ r.name = NameB

(***************************************************************************)
(* C23.  The id and the creation timestamp of a task are assigned at its   *)
(* creation and never change.  Step by step: a task that stays stored      *)
(* keeps its dateOfCreation under every request; a created task gets an    *)
(* id no task has or had; and the task a createTask, getTask or updateTask *)
(* returns carries the id and dateOfCreation of the stored task.  Hence    *)
(* what a later getTask observes is what createTask returned.              *)
(***************************************************************************)
C23_IdAndCreationTimeAreImmutable ==
    [][/\ \A r \in store : \A r2 \in store' :
             r2.id = r.id => r2.dateOfCreation = r.dateOfCreation
       /\ \A r2 \in store' \ store :
             (\A r \in store : r.id # r2.id) =>
                /\ r2.id \notin removed
                /\ last'.op = "create"
                /\ \A r \in store : r.dateOfCreation < r2.dateOfCreation
       /\ (last'.op \in {"create", "findOne", "update"} /\ last'.status = "ok") =>
             \E r2 \in store' :
                /\ last'.task.id = [t |-> "string", v |-> r2.id]
                /\ last'.task.dateOfCreation.v = r2.dateOfCreation]_vars

C23_Witness ==
    /\ last.op = "findOne"
    /\ last.status = "ok"
    /\ last.task.name = Str(NameB)
    /\ last.task.status = Str("Done")
    /\ last.task.updatedAt.v > last.task.dateOfCreation.v + 1
    /\ \E r \in store : r.dateOfCreation > last.task.dateOfCreation.v

(***************************************************************************)
(* C24.  An updateTask request verifies the identifier, looks the task up, *)
(* validates the payload and persists, in that order: with an invalid      *)
(* payload, a blank identifier still gives "Task ID is required", a        *)
(* malformed one "Invalid task ID format", and a well-formed identifier of *)
(* no stored task NotFoundException, never the validation error.           *)
(* Fails: the payload is validated by the global ValidationPipe before the *)
(* controller calls the service, so all three requests get the validation  *)
(* error and the identifier is never looked at.                            *)
(***************************************************************************)
C24_IdentifierIsCheckedBeforePayload ==
    (last.op = "update" /\ "body" \in DOMAIN last /\ last.violations # {}) =>
        /\ BlankId(last.id) => Required(last)
        /\ (~BlankId(last.id) /\ ~CanonicalId(last.id)) => Malformed(last)
        /\ (CanonicalId(last.id) /\ RowsOf(store, last.id) = {}) => NotFound(last)
        /\ (BlankId(last.id) \/ ~CanonicalId(last.id) \/ RowsOf(store, last.id) = {})
              => ~ValidationFailed(last)

\* What holds instead: an invalid payload is answered with the validation
\* error whatever the identifier, and the service is not called.
C24_PayloadIsValidatedFirst ==
    (last.op = "update" /\ "body" \in DOMAIN last /\ last.violations # {}) =>
        (ValidationFailed(last) /\ last.calls = <<>>)

\* the concatenated pages hold every matching record exactly once
ExactlyOnce(seen, q) ==
    /\ \A i, j \in DOMAIN seen : i # j => seen[i] # seen[j]
    /\ Elements(seen) = {r \in store : SatisfiesEqualities(q, r)}

\* two matching records have the same value of the field the query sorts by
HasTies(q) ==
    \E a, b \in {r \in store : SatisfiesEqualities(q, r)} :
        /\ a # b
        /\ FieldLeq(SortField(RequestedSortBy(q)), a, b)
        /\ FieldLeq(SortField(RequestedSortBy(q)), b, a)

ScanIsComplete == last.op = "scan" /\ last.page >= last.totalPages

(***************************************************************************)
(* C28 as stated.  With no mutation in between, the pages 1 .. totalPages  *)
(* of one query, concatenated, hold every matching task exactly once, also *)
(* when matching tasks tie on the sort field.                              *)
(* Fails when tasks tie: the order clause names the sort field alone, each *)
(* page is a separate query, and the store may order the tied rows         *)
(* differently from one query to the next, so a task can come on two pages *)
(* and another on none.                                                    *)
(***************************************************************************)
C28_PagesPartitionTheMatches ==
    ScanIsComplete => ExactlyOnce(last.seen, last.query)

(***************************************************************************)
(* C28, amended.  With no mutation in between, the pages 1 .. totalPages   *)
(* of one query, concatenated, hold every matching task exactly once,      *)
(* provided no two matching tasks tie on the sort field.                   *)
(***************************************************************************)
C28_PagesPartitionWithoutTies ==
    (ScanIsComplete /\ ~HasTies(last.query)) =>
        ExactlyOnce(last.seen, last.query)

\* a complete scan of three pages over three matching tasks without ties
C28_Witness ==
    /\ ScanIsComplete
    /\ ~HasTies(last.query)
    /\ last.page = 3
    /\ Len(last.seen) = 3
    /\ last.query.sortBy = Str("name")

\* request r of the concurrent requests has completed without an exception
DoneOk(r) == last.req[r].pc = "done" /\ last.req[r].status = "ok"

\* the fields of a stored task that an update may set, with its identity
SameTask(a, b) ==
    \A c \in DtoFields \cup {"id", "dateOfCreation"} : a[c] = b[c]

\* the table after the two updates applied one after the other, u first
SerialUpdates(u, v) ==
    ServiceUpdate(ServiceUpdate(ConcStore, 1, 1, Str(TaskX), ConcDto[u]).store,
                  2, 1, Str(TaskX), ConcDto[v]).store

(***************************************************************************)
(* C25.  A deleted task is never resurrected under interleaving: when an   *)
(* update of X has completed its lookup and a delete of X then completes   *)
(* successfully before the update's save, the store holds no task X after  *)
(* the save, and a getTask(X) that follows both fails with NotFound.       *)
(* Fails: save() of the entity the update holds finds no row with its id   *)
(* and INSERTs it.                                                         *)
(***************************************************************************)
C25_DeletedTaskIsNotResurrected ==
    [][(last.op = "concurrent" /\ DoneOk("D")) =>
          /\ \A u \in {"U1", "U2"} :
                (last.req[u].pc = "found" /\ last'.req[u].pc = "done") =>
                    RepoFindOne(store', TaskX) = {}
          /\ (/\ \A u \in {"U1", "U2"} : last.req[u].pc = "done"
              /\ last.req.G.pc = "idle"
              /\ last'.req.G.pc = "done") =>
                    last'.req.G.status = "NotFoundException"]_vars

(***************************************************************************)
(* C26.  Two updates of one existing task whose lookups and saves          *)
(* interleave leave the stored task as applying them one after the other   *)
(* in some order would: with payloads that supply different fields, both   *)
(* supplied values are in the stored task.                                 *)
(* Fails: when both lookups come before both saves, the second save writes *)
(* back the value its entity was loaded with over the first one's.         *)
(***************************************************************************)
C26_InterleavedUpdatesAreSerializable ==
    (/\ last.op = "concurrent"
     /\ DoneOk("U1") /\ DoneOk("U2")
     /\ last.req.D.pc = "idle") =>
        /\ \E r \in RepoFindOne(store, TaskX) :
              \/ \E s \in SerialUpdates("U1", "U2") : SameTask(r, s)
              \/ \E s \in SerialUpdates("U2", "U1") : SameTask(r, s)
        /\ \E r \in RepoFindOne(store, TaskX) :
              r.status = "Done" /\ r.name = NameB

\* the two properties of a statistics object
StatsAddUp(stats) ==
    /\ stats.total.v =
          stats.pending.v + stats.inProgress.v + stats.done.v + stats.paused.v
    /\ stats.active.v <= stats.total.v

(***************************************************************************)
(* C27 as stated.  Every result of getStats has total = pending +          *)
(* inProgress + done + paused and active <= total, also when creates,      *)
(* updates or deletes execute between its six counts.                      *)
(* Fails: the six counts are six queries with no transaction around them,  *)
(* and each counts the table as it is when it runs.                        *)
(***************************************************************************)
C27_StatsAddUpUnderInterleaving ==
    (last.op = "concurrent" /\ DoneOk("S")) => StatsAddUp(last.req.S.stats)

(***************************************************************************)
(* C27, amended.  Every result of getStats has total = pending +           *)
(* inProgress + done + paused and active <= total when no create, update   *)
(* or delete changes the store between its six counts.                     *)
(***************************************************************************)
C27_StatsAddUpWhenUndisturbed ==
    (last.op = "concurrent" /\ DoneOk("S") /\ ~last.req.S.torn) =>
        StatsAddUp(last.req.S.stats)

\* getStats has run among the other requests, the create and an update
\* before its first count, the delete after its last
C27_Witness ==
    /\ last.op = "concurrent"
    /\ DoneOk("S") /\ ~last.req.S.torn
    /\ DoneOk("C") /\ DoneOk("U1") /\ DoneOk("D")
    /\ last.req.S.stats.total.v = 2
    /\ last.req.S.stats.done.v = 1
    /\ last.req.S.stats.paused.v = 1
    /\ store # ConcStore

====
